---- MODULE Spec2Model ----
(***************************************************************************)
(* A state-machine model of one run of the FYUL end-to-end suite:          *)
(* loading the configuration (cypress.config.ts / cypress.config.js), then *)
(* running tests one at a time through the runner's per-attempt steps      *)
(* (isolation reset, global beforeEach of the support file, the spec       *)
(* file's beforeEach, the test body), with the command queue, the cookie   *)
(* and localStorage stores, the registered network intercepts, the         *)
(* uncaught:exception handlers and the custom commands of the support      *)
(* files.                                                                  *)
(***************************************************************************)
EXTENDS Integers, Sequences, FiniteSets, TLC

VARIABLES
    configFile,     \* which configuration file the run was started with
    cypressEnv,     \* process.env.CYPRESS_ENV (Undefined when unset)
    mode,           \* "run" (cypress run) or "open" (cypress open)
    cyEnv,          \* Cypress.env values PERCY_TOKEN and visual, as JS literals
    config,         \* the loaded configuration (loaded = FALSE before loading)
    phase,          \* position of the runner
    entered,        \* the current hook / body function has been called
    remaining,      \* tests not yet run
    current,        \* the test being run
    attempt,        \* number of the current attempt of the current test
    queue,          \* the command queue of the current attempt
    cookies,        \* browser cookies (domain, creating test and attempt)
    localStorage,   \* localStorage entries (domain, creating test and attempt)
    routes,         \* intercepts registered in the current attempt
    setupRan,       \* cy.setupIntercepts() was executed in the current attempt
    failed,         \* the current attempt has failed
    outcomes,       \* per test, the outcome of each attempt made so far
    results,        \* per test, the reported result
    trace,          \* commands executed in the current attempt, in order
    lastReq,        \* the request issued by the last page load and its handling
    lastExc,        \* the uncaught exception of the last page load and its handling
    snapshots,      \* names of the Percy snapshots taken in the current attempt
    rb,             \* state of a running retryWithBackoff call
    vcall,          \* visualSnapshotResponsive: position and argument of the call
    vqueue,         \* visualSnapshotResponsive: the command queue
    viewport,       \* the browser's viewport (width, height)
    shots,          \* snapshot requests made so far, with the viewport they saw
    page,           \* page objects: the instance the test body works with
    chain,          \* page objects: value of the call chain written so far
    calls,          \* page objects: the method calls the test body has made
    pqueue,         \* page objects: the command queue
    doc,            \* page objects: the document the browser shows (url, title)
    verdicts,       \* page objects: the commands run so far and how they ended
    pphase,         \* page objects: "body", "run", "passed" or "failed"
    nscen,          \* navigation: what the test body does (kind, target path)
    nqueue,         \* navigation: the command queue
    ndoc,           \* navigation: the document shown (path, readyState, bodyVisible)
    pending,        \* navigation: the page load in progress, if any
    ntrace,         \* navigation: the commands run, each with the document it saw
    nphase,         \* navigation: "body", "run", "passed" or "failed"
    thresholds,     \* checkPerformance: the argument of the call
    timing,         \* checkPerformance: the page's navigation and first-paint entries
    limits,         \* checkPerformance: the merged limits
    perfLog,        \* checkPerformance: the metrics logged, and those still queued
    perf,           \* checkPerformance: "queued", "window", "logging", "passed", "failed"
    html,           \* validateSEO: the page's title, meta tags, canonical link, h1s
    seoQueue,       \* validateSEO: the command queue
    seo,            \* validateSEO: "queued", "run", "passed" or "failed"
    rcall,          \* retry commands: the command called and its arguments
    rqueue,         \* retry commands: the command queue
    rlog,           \* retry commands: the commands run so far and what they saw
    rout            \* retry commands: state of the call and the error raised

vars == <<configFile, cypressEnv, mode, cyEnv, config, phase, entered, remaining,
          current, attempt, queue, cookies, localStorage, routes, setupRan,
          failed, outcomes, results, trace, lastReq, lastExc, snapshots, rb,
          vcall, vqueue, viewport, shots,
          page, chain, calls, pqueue, doc, verdicts, pphase,
          nscen, nqueue, ndoc, pending, ntrace, nphase,
          thresholds, timing, limits, perfLog, perf, html, seoQueue, seo,
          rcall, rqueue, rlog, rout>>

-----------------------------------------------------------------------------
(* JavaScript values                                                       *)

Undefined == "<undefined>"
None == "<none>"

\* JS truthiness of a value written as a literal: undefined, null, false, 0,
\* NaN and the empty string are falsy, everything else (also the string
\* 'false') is truthy.
Truthy(v) == v \notin {Undefined, "null", "false", "0", "NaN", "''"}

-----------------------------------------------------------------------------
(* cypress.config.ts                                                       *)

environments ==
    [production  |-> [baseUrl |-> "https://www.fyul.com",
                      apiUrl  |-> "https://api.fyul.com"],
     staging     |-> [baseUrl |-> "https://staging.fyul.com",
                      apiUrl  |-> "https://api-staging.fyul.com"],
     development |-> [baseUrl |-> "http://localhost:3000",
                      apiUrl  |-> "http://localhost:4000"]]

\* Property names every object literal inherits from Object.prototype.
ObjectPrototypeKeys == {"constructor", "toString"}

\* process.env.CYPRESS_ENV || 'production'  (the empty string is falsy)
EnvName(raw) == IF raw = Undefined \/ raw = "" THEN "production" ELSE raw

\* environments[env]: an own property, else an inherited member of
\* Object.prototype (a function: defined and truthy, but with neither a
\* baseUrl nor an apiUrl property), else undefined.
Lookup(env) ==
    IF env \in DOMAIN environments
    THEN [defined |-> TRUE, baseUrl |-> environments[env].baseUrl,
          apiUrl |-> environments[env].apiUrl]
    ELSE IF env \in ObjectPrototypeKeys
         THEN [defined |-> TRUE, baseUrl |-> Undefined, apiUrl |-> Undefined]
         ELSE [defined |-> FALSE, baseUrl |-> Undefined, apiUrl |-> Undefined]

\* environments[env] || environments.production  (objects and functions are truthy)
EnvConfig_alwaysProduction(env) == environments.production
EnvConfig(env) ==
    IF Lookup(env).defined
    THEN [baseUrl |-> Lookup(env).baseUrl, apiUrl |-> Lookup(env).apiUrl]
    ELSE environments.production

testIsolation_off == FALSE
testIsolation == TRUE

retries_none == [runMode |-> 0, openMode |-> 0]
retries == [runMode |-> 2, openMode |-> 0]

\* The object passed to defineConfig, as far as the run depends on it.
ConfigTs(raw) ==
    [loaded        |-> TRUE,
     baseUrl       |-> EnvConfig(EnvName(raw)).baseUrl,
     apiUrl        |-> EnvConfig(EnvName(raw)).apiUrl,
     environment   |-> EnvName(raw),
     retries       |-> retries,
     testIsolation |-> testIsolation,
     supportFile   |-> "e2e.ts"]

(* cypress.config.js                                                       *)
ConfigJs ==
    [loaded        |-> TRUE,
     baseUrl       |-> "https://www.fyul.com",
     apiUrl        |-> "https://www.fyul.com",
     environment   |-> "production",
     retries       |-> [runMode |-> 2, openMode |-> 0],
     testIsolation |-> TRUE,
     supportFile   |-> "e2e.js"]

NotLoaded ==
    [loaded        |-> FALSE,
     baseUrl       |-> Undefined,
     apiUrl        |-> Undefined,
     environment   |-> Undefined,
     retries       |-> [runMode |-> 0, openMode |-> 0],
     testIsolation |-> FALSE,
     supportFile   |-> None]

-----------------------------------------------------------------------------
(* Commands                                                                *)

\* A queued command: its name, a string argument, a numeric argument and the
\* function that enqueued it ("global": beforeEach of the support file,
\* "spec": beforeEach of the spec file, "body": the test body).
Cmd(op, arg, n) == [op |-> op, arg |-> arg, n |-> n, src |-> None]

From(cmds, src) == [i \in DOMAIN cmds |-> [cmds[i] EXCEPT !.src = src]]

\* Commands enqueued while a command runs are inserted right after it, ahead
\* of the commands already queued.
InsertChildren_atEnd(children, rest) == rest \o children
InsertChildren(children, rest) == children \o rest

(* support/e2e.ts: the global beforeEach                                    *)
GlobalBeforeEachTs_noIntercepts ==
    << Cmd("clearCookies", "", 0),
       Cmd("clearLocalStorage", "", 0) >>
GlobalBeforeEachTs ==
    << Cmd("clearCookies", "", 0),
       Cmd("clearLocalStorage", "", 0),
       Cmd("setupIntercepts", "", 0) >>

\* support/e2e.js registers no beforeEach.
GlobalBeforeEach(supportFile) ==
    IF supportFile = "e2e.ts" THEN GlobalBeforeEachTs ELSE << >>

(* support/intercepts.ts: intercepts.setupDefaults                          *)
\* A URL is the sequence of its "/"-separated segments; a glob pattern is a
\* sequence of segments in which "**" stands for any number of segments.
setupDefaults_noFacebookConnect ==
    << [pattern |-> <<"**", "analytics", "**">>,            statusCode |-> 200, alias |-> "analytics"],
       [pattern |-> <<"**", "gtag", "**">>,                 statusCode |-> 200, alias |-> "gtag"],
       [pattern |-> <<"**", "gtm.js">>,                     statusCode |-> 200, alias |-> "gtm"],
       [pattern |-> <<"**", "googletagmanager.com", "**">>, statusCode |-> 200, alias |-> "googleTagManager"],
       [pattern |-> <<"**", "google-analytics.com", "**">>, statusCode |-> 200, alias |-> "googleAnalytics"],
       [pattern |-> <<"**", "facebook.net", "**">>,         statusCode |-> 200, alias |-> "facebook"] >>
setupDefaults ==
    << [pattern |-> <<"**", "analytics", "**">>,            statusCode |-> 200, alias |-> "analytics"],
       [pattern |-> <<"**", "gtag", "**">>,                 statusCode |-> 200, alias |-> "gtag"],
       [pattern |-> <<"**", "gtm.js">>,                     statusCode |-> 200, alias |-> "gtm"],
       [pattern |-> <<"**", "googletagmanager.com", "**">>, statusCode |-> 200, alias |-> "googleTagManager"],
       [pattern |-> <<"**", "google-analytics.com", "**">>, statusCode |-> 200, alias |-> "googleAnalytics"],
       [pattern |-> <<"**", "facebook.net", "**">>,         statusCode |-> 200, alias |-> "facebook"],
       [pattern |-> <<"**", "connect.facebook.net", "**">>, statusCode |-> 200, alias |-> "facebookConnect"] >>

\* The cy.intercept calls setupDefaults makes, in order.
SetupInterceptsCmds ==
    [i \in 1..Len(setupDefaults) |-> Cmd("intercept", setupDefaults[i].alias, i)]

RECURSIVE GlobMatch(_, _)
GlobMatch(pattern, url) ==
    IF pattern = << >> THEN url = << >>
    ELSE IF Head(pattern) = "**"
         THEN \/ GlobMatch(Tail(pattern), url)
              \/ url # << >> /\ GlobMatch(pattern, Tail(url))
         ELSE /\ url # << >>
              /\ Head(pattern) = Head(url)
              /\ GlobMatch(Tail(pattern), Tail(url))

\* How a request is handled: the reply of a matching route with a static
\* response, else the request goes to the server.
NoReq == [url |-> << >>, outcome |-> None, statusCode |-> 0, alias |-> None]
HandleRequest(rs, url) ==
    LET hits == {i \in DOMAIN rs : GlobMatch(rs[i].pattern, url)}
    IN  IF hits = {}
        THEN [url |-> url, outcome |-> "forwarded", statusCode |-> 0, alias |-> None]
        ELSE LET i == CHOOSE j \in hits : \A k \in hits : k <= j
             IN  [url |-> url, outcome |-> "stubbed",
                  statusCode |-> rs[i].statusCode, alias |-> rs[i].alias]

(* The uncaught:exception handlers                                          *)
\* An error message is the sequence of its fragments; includes(f) holds when
\* f is one of them.
Includes(msg, fragment) == \E i \in DOMAIN msg : msg[i] = fragment

\* support/e2e.ts: logs to the console and returns false for every error.
HandlerTs(msg) == [preventFailure |-> TRUE, cmds |-> << >>]

\* support/e2e.js: cy.log, then false for 'ResizeObserver loop', true otherwise.
HandlerJs_allErrors(msg) ==
    [preventFailure |-> TRUE,
     cmds |-> << Cmd("log", "Uncaught exception:", 0) >>]
HandlerJs(msg) ==
    [preventFailure |-> Includes(msg, "ResizeObserver loop"),
     cmds |-> << Cmd("log", "Uncaught exception:", 0) >>]

UncaughtException(supportFile, msg) ==
    IF supportFile = "e2e.ts" THEN HandlerTs(msg) ELSE HandlerJs(msg)

NoExc == [msg |-> << >>, preventFailure |-> FALSE]

(* support/visual.ts                                                        *)
\* visualSnapshot(name): the commands it enqueues.
PercyEnabled_both(env) == Truthy(env.PERCY_TOKEN) /\ Truthy(env.visual)
PercyEnabled(env) == Truthy(env.PERCY_TOKEN) \/ Truthy(env.visual)

visualSnapshot(name, env) ==
    IF PercyEnabled(env)
    THEN << Cmd("percySnapshot", name, 0) >>
    ELSE << Cmd("log", "[Visual] Skipped snapshot", 0) >>

(* retryWithBackoff(action, maxRetries = 3, baseDelay = 1000)               *)
maxRetries == 3
baseDelay == 1000

RECURSIVE Pow2(_)
Pow2(n) == IF n = 0 THEN 1 ELSE 2 * Pow2(n - 1)

\* the catch handler's test `retries < maxRetries`
RbShouldRetry_never(r) == FALSE
RbShouldRetry(r) == r < maxRetries
RbDelay(r) == baseDelay * Pow2(r)

NoRb == [active |-> FALSE, retries |-> 0, calls |-> 0, result |-> None]

(* commands.ts: waitForPageReady; pages/BasePage.ts: visit                  *)
waitForPageReady_bodyFirst ==
    << Cmd("should", "body be.visible", 0),
       Cmd("should", "readyState eq complete", 0) >>
waitForPageReady ==
    << Cmd("should", "readyState eq complete", 0),
       Cmd("should", "body be.visible", 0) >>

BasePageVisit(path) == << Cmd("visit", path, 0) >> \o waitForPageReady

-----------------------------------------------------------------------------
(* The tests of the suite that the model runs                               *)

\* home:    e2e/home/home.cy.ts "should load successfully with correct title"
\* about:   e2e/visual/visual.cy.ts "should match about page visual baseline"
\* cookies: e2e/visual/visual.cy.ts "should handle cookies appropriately"
\* homeJs:  e2e/home/home.cy.js "should load the home page successfully"
\* backoff: a test that calls the exported helper retryWithBackoff
TestsOf(file) ==
    IF file = "cypress.config.ts" THEN {"home", "about", "cookies"}
    ELSE {"homeJs", "backoff"}

AllTests == {"home", "about", "cookies", "homeJs", "backoff"}

SpecBeforeEach(t) ==
    CASE t = "home"    -> BasePageVisit("/")
      [] t = "homeJs"  -> BasePageVisit("/")
      [] t = "cookies" -> << Cmd("visit", "/", 0) >>
      [] OTHER         -> << >>

TestBody(t) ==
    CASE t = "home"    -> << Cmd("should", "url include /", 0),
                             Cmd("should", "title match FYUL", 0),
                             Cmd("should", "title match FYUL", 0) >>
      [] t = "homeJs"  -> << Cmd("should", "url include /", 0),
                             Cmd("should", "title match FYUL", 0),
                             Cmd("should", "url eq baseUrl/", 0) >>
      [] t = "cookies" -> << Cmd("getCookies", "", 0) >>
      [] t = "about"   -> << Cmd("visit", "/about", 0),
                             Cmd("waitForPageReady", "", 0),
                             Cmd("visualSnapshot", "About Page", 0) >>
      [] OTHER         -> << Cmd("retryWithBackoff", "", 0) >>

-----------------------------------------------------------------------------
(* Inputs of a run and of the site under test                               *)

MaxTests == 2       \* tests executed in one run

ConfigFiles == {"cypress.config.ts", "cypress.config.js"}

EnvInputs == {Undefined, "", "production", "staging", "development", "qa", "constructor"}

CyEnvInputs ==
    [PERCY_TOKEN : {Undefined, "'tok'"}, visual : {Undefined, "false", "true"}]

NoCyEnv == [PERCY_TOKEN |-> Undefined, visual |-> Undefined]

RequestUrls ==
    { <<"https:", "", "www.fyul.com", "analytics", "collect">>,
      <<"https:", "", "www.fyul.com", "gtag", "js">>,
      <<"https:", "", "cdn.fyul.com", "gtm.js">>,
      <<"https:", "", "googletagmanager.com", "ns.html">>,
      <<"https:", "", "google-analytics.com", "collect">>,
      <<"https:", "", "facebook.net", "en_US", "fbevents.js">>,
      <<"https:", "", "connect.facebook.net", "en_US", "sdk.js">>,
      <<"https:", "", "www.fyul.com", "assets", "app.js">> }

ExceptionMessages ==
    { << >>,
      <<"ResizeObserver loop", " limit exceeded">>,
      <<"TypeError: Cannot read properties of undefined">> }

Domains == {"site", "third"}

\* What a page load may leave in the browser.
PageEffects ==
    { [store |-> None, domain |-> "site"],
      [store |-> "cookie", domain |-> "site"],
      [store |-> "cookie", domain |-> "third"],
      [store |-> "localStorage", domain |-> "site"] }

Hooks == {"global", "spec", "body"}

-----------------------------------------------------------------------------
(* The run                                                                  *)

\* Nothing of the run has happened yet.
NotStarted ==
    /\ config = NotLoaded
    /\ phase = "config"
    /\ entered = FALSE
    /\ remaining = {}
    /\ current = None
    /\ attempt = 0
    /\ queue = << >>
    /\ cookies = {}
    /\ localStorage = {}
    /\ routes = << >>
    /\ setupRan = FALSE
    /\ failed = FALSE
    /\ outcomes = [t \in AllTests |-> << >>]
    /\ results = [t \in AllTests |-> None]
    /\ trace = << >>
    /\ lastReq = NoReq
    /\ lastExc = NoExc
    /\ snapshots = {}
    /\ rb = NoRb

\* The variables of the single-command scenarios below, which the run leaves
\* alone.
visualVars == <<vcall, vqueue, viewport, shots>>
pageVars == <<page, chain, calls, pqueue, doc, verdicts, pphase>>
navVars == <<nscen, nqueue, ndoc, pending, ntrace, nphase>>
perfVars == <<thresholds, timing, limits, perfLog, perf>>
seoVars == <<html, seoQueue, seo>>
retryVars == <<rcall, rqueue, rlog, rout>>
aux == <<visualVars, pageVars, navVars, perfVars, seoVars, retryVars>>

NoCall == [at |-> "idle", name |-> None]
configViewport == [width |-> 1920, height |-> 1080]

VisualIdle ==
    /\ vcall = NoCall
    /\ vqueue = << >>
    /\ viewport = configViewport
    /\ shots = << >>

Blank == [url |-> <<"about:blank">>, title |-> << >>]
NoPage == [class |-> None, id |-> 0]

PagesIdle ==
    /\ page = NoPage
    /\ chain = NoPage
    /\ calls = << >>
    /\ pqueue = << >>
    /\ doc = Blank
    /\ verdicts = << >>
    /\ pphase = "idle"

NoNav == [state |-> "none", target |-> None]
BlankDoc == [path |-> "about:blank", readyState |-> "complete", bodyVisible |-> TRUE]

NavigationIdle ==
    /\ nscen = [kind |-> None, target |-> None]
    /\ nqueue = << >>
    /\ ndoc = BlankDoc
    /\ pending = NoNav
    /\ ntrace = << >>
    /\ nphase = "idle"

\* A threshold that is not given, and a performance entry that is not there.
Absent == -1
NoEntries ==
    [navigation |-> [present |-> FALSE, startTime |-> 0,
                     domContentLoadedEventEnd |-> 0, loadEventEnd |-> 0],
     firstPaint |-> [present |-> FALSE, startTime |-> 0]]
NoThresholds ==
    [maxLoadTime |-> Absent, maxDomContentLoaded |-> Absent,
     maxFirstPaint |-> Absent, maxPageLoadTime |-> Absent]

PerformanceIdle ==
    /\ thresholds = NoThresholds
    /\ timing = NoEntries
    /\ limits = NoThresholds
    /\ perfLog = [done |-> << >>, queued |-> << >>]
    /\ perf = "idle"

NoHtml == [title |-> "", description |-> "missing", canonical |-> "missing",
           og |-> 0, h1 |-> 0]

SeoIdle ==
    /\ html = NoHtml
    /\ seoQueue = << >>
    /\ seo = "idle"

NoRetryCall == [command |-> None, target |-> None, option |-> Absent, max |-> 0]
NoError == [message |-> None, target |-> None, attempts |-> 0]

RetryIdle ==
    /\ rcall = NoRetryCall
    /\ rqueue = << >>
    /\ rlog = << >>
    /\ rout = [state |-> "idle", error |-> NoError]

Init ==
    /\ configFile \in ConfigFiles
    /\ cypressEnv \in EnvInputs
    /\ mode \in {"run", "open"}
    /\ cyEnv \in CyEnvInputs
    /\ configFile = "cypress.config.js" => cypressEnv = Undefined /\ cyEnv = NoCyEnv
    /\ NotStarted
    /\ VisualIdle
    /\ PagesIdle
    /\ NavigationIdle
    /\ PerformanceIdle
    /\ SeoIdle
    /\ RetryIdle

inputs == <<configFile, cypressEnv, mode, cyEnv>>
browser == <<cookies, localStorage>>
events == <<lastReq, lastExc>>
runner == <<phase, entered, remaining, current, attempt, outcomes, results>>

LoadConfigTs ==
    /\ phase = "config"
    /\ configFile = "cypress.config.ts"
    /\ config' = ConfigTs(cypressEnv)
    /\ remaining' = TestsOf(configFile)
    /\ phase' = "pick"
    /\ UNCHANGED <<aux, inputs, browser, events, entered, current, attempt, outcomes,
                   results, queue, routes, setupRan, failed, trace, snapshots, rb>>

LoadConfigJs ==
    /\ phase = "config"
    /\ configFile = "cypress.config.js"
    /\ config' = ConfigJs
    /\ remaining' = TestsOf(configFile)
    /\ phase' = "pick"
    /\ UNCHANGED <<aux, inputs, browser, events, entered, current, attempt, outcomes,
                   results, queue, routes, setupRan, failed, trace, snapshots, rb>>

Executed == Cardinality(TestsOf(configFile)) - Cardinality(remaining)

\* The runner takes the next test (the model lets it take them in any order).
StartTest ==
    /\ phase = "pick"
    /\ Executed < MaxTests
    /\ \E t \in remaining :
         /\ current' = t
         /\ remaining' = remaining \ {t}
    /\ attempt' = 1
    /\ phase' = "isolate"
    /\ UNCHANGED <<aux, inputs, config, browser, events, entered, outcomes, results,
                   queue, routes, setupRan, failed, trace, snapshots, rb>>

EndRun ==
    /\ phase = "pick"
    /\ remaining = {} \/ Executed >= MaxTests
    /\ phase' = "done"
    /\ UNCHANGED <<aux, inputs, config, browser, events, entered, remaining, current,
                   attempt, outcomes, results, queue, routes, setupRan, failed,
                   trace, snapshots, rb>>

\* Before every attempt the runner drops the intercepts of the previous one
\* and, with testIsolation, clears cookies and storage of every domain.
Isolate ==
    /\ phase = "isolate"
    /\ IF config.testIsolation
       THEN cookies' = {} /\ localStorage' = {}
       ELSE UNCHANGED browser
    /\ routes' = << >>
    /\ setupRan' = FALSE
    /\ failed' = FALSE
    /\ queue' = << >>
    /\ trace' = << >>
    /\ snapshots' = {}
    /\ lastReq' = NoReq
    /\ lastExc' = NoExc
    /\ rb' = NoRb
    /\ phase' = "global"
    /\ entered' = FALSE
    /\ UNCHANGED <<aux, inputs, config, remaining, current, attempt, outcomes, results>>

HookCmds(h) ==
    CASE h = "global" -> GlobalBeforeEach(config.supportFile)
      [] h = "spec"   -> SpecBeforeEach(current)
      [] OTHER        -> TestBody(current)

\* The runner calls the hook (or body) function, which enqueues its commands.
EnterHook ==
    /\ phase \in Hooks
    /\ ~entered
    /\ queue = << >>
    /\ queue' = From(HookCmds(phase), phase)
    /\ entered' = TRUE
    /\ UNCHANGED <<aux, inputs, config, browser, events, phase, remaining, current,
                   attempt, outcomes, results, routes, setupRan, failed, trace,
                   snapshots, rb>>

NextPhase(h) == IF h = "global" THEN "spec" ELSE "body"

\* The queue has drained: on to the next function, or to the end of the attempt.
LeaveHook ==
    /\ phase \in Hooks
    /\ entered
    /\ queue = << >>
    /\ ~rb.active
    /\ phase' = IF failed \/ phase = "body" THEN "finish" ELSE NextPhase(phase)
    /\ entered' = FALSE
    /\ UNCHANGED <<aux, inputs, config, browser, events, remaining, current, attempt,
                   outcomes, results, queue, routes, setupRan, failed, trace,
                   snapshots, rb>>

MaxAttempts ==
    1 + (IF mode = "run" THEN config.retries.runMode ELSE config.retries.openMode)

\* End of an attempt: a failed attempt is retried while retries are left.
FinishAttempt ==
    /\ phase = "finish"
    /\ outcomes' = [outcomes EXCEPT
                      ![current] = Append(@, IF failed THEN "fail" ELSE "pass")]
    /\ IF failed /\ attempt < MaxAttempts
       THEN /\ attempt' = attempt + 1
            /\ phase' = "isolate"
            /\ UNCHANGED results
       ELSE /\ results' = [results EXCEPT
                             ![current] = IF failed THEN "failed" ELSE "passed"]
            /\ phase' = "pick"
            /\ UNCHANGED attempt
    /\ UNCHANGED <<aux, inputs, config, browser, events, entered, remaining, current,
                   queue, routes, setupRan, failed, trace, snapshots, rb>>

-----------------------------------------------------------------------------
(* Execution of the queued commands                                         *)

\* The next command can run.
Ready(op) ==
    /\ phase \in Hooks
    /\ entered
    /\ ~failed
    /\ ~rb.active
    /\ queue # << >>
    /\ Head(queue).op = op

\* The command ran; no page load happened in this step.
Ran == /\ trace' = Append(trace, Head(queue))
       /\ lastReq' = NoReq
       /\ lastExc' = NoExc

\* cy.clearCookies(): the cookies of the current domain.
ExecClearCookies ==
    /\ Ready("clearCookies")
    /\ Ran
    /\ cookies' = {c \in cookies : c.domain # "site"}
    /\ queue' = Tail(queue)
    /\ UNCHANGED <<aux, inputs, config, runner, localStorage, routes, setupRan,
                   failed, snapshots, rb>>

\* cy.clearLocalStorage(): the entries of the current domain.
ExecClearLocalStorage ==
    /\ Ready("clearLocalStorage")
    /\ Ran
    /\ localStorage' = {c \in localStorage : c.domain # "site"}
    /\ queue' = Tail(queue)
    /\ UNCHANGED <<aux, inputs, config, runner, cookies, routes, setupRan, failed,
                   snapshots, rb>>

\* cy.setupIntercepts(): intercepts.setupDefaults() enqueues its intercepts.
ExecSetupIntercepts ==
    /\ Ready("setupIntercepts")
    /\ Ran
    /\ setupRan' = TRUE
    /\ queue' = InsertChildren(From(SetupInterceptsCmds, Head(queue).src), Tail(queue))
    /\ UNCHANGED <<aux, inputs, config, runner, browser, routes, failed, snapshots, rb>>

\* cy.intercept(pattern, staticResponse).as(alias)
ExecIntercept ==
    /\ Ready("intercept")
    /\ Ran
    /\ routes' = Append(routes, setupDefaults[Head(queue).n])
    /\ queue' = Tail(queue)
    /\ UNCHANGED <<aux, inputs, config, runner, browser, setupRan, failed, snapshots, rb>>

Tag(e) == [store |-> e.store, domain |-> e.domain, test |-> current, attempt |-> attempt]

\* cy.visit(path): the navigation fails, or the page loads; the loaded page
\* issues a request, may leave a cookie or a localStorage entry, and may throw
\* an uncaught exception, which the support file's handler sees.
ExecVisit ==
    /\ Ready("visit")
    /\ trace' = Append(trace, Head(queue))
    /\ \/ /\ failed' = TRUE
          /\ queue' = << >>
          /\ lastReq' = NoReq
          /\ lastExc' = NoExc
          /\ UNCHANGED browser
       \/ \E url \in RequestUrls, eff \in PageEffects, msg \in ExceptionMessages :
            LET h == UncaughtException(config.supportFile, msg)
                thrown == msg # << >>
                fails == thrown /\ ~h.preventFailure
            IN  /\ lastReq' = HandleRequest(routes, url)
                /\ cookies' = IF eff.store = "cookie"
                              THEN cookies \cup {Tag(eff)} ELSE cookies
                /\ localStorage' = IF eff.store = "localStorage"
                                   THEN localStorage \cup {Tag(eff)} ELSE localStorage
                /\ lastExc' = IF thrown
                              THEN [msg |-> msg, preventFailure |-> h.preventFailure]
                              ELSE NoExc
                /\ failed' = fails
                /\ queue' = IF fails THEN << >>
                            ELSE IF thrown
                                 THEN InsertChildren(From(h.cmds, Head(queue).src),
                                                     Tail(queue))
                                 ELSE Tail(queue)
    /\ UNCHANGED <<aux, inputs, config, runner, routes, setupRan, snapshots, rb>>

\* A query with its assertion: it passes, or times out and fails the attempt.
ExecShould ==
    /\ Ready("should")
    /\ Ran
    /\ \E ok \in BOOLEAN :
         /\ failed' = ~ok
         /\ queue' = IF ok THEN Tail(queue) ELSE << >>
    /\ UNCHANGED <<aux, inputs, config, runner, browser, routes, setupRan, snapshots, rb>>

ExecWaitForPageReady ==
    /\ Ready("waitForPageReady")
    /\ Ran
    /\ queue' = InsertChildren(From(waitForPageReady, Head(queue).src), Tail(queue))
    /\ UNCHANGED <<aux, inputs, config, runner, browser, routes, setupRan, failed,
                   snapshots, rb>>

ExecVisualSnapshot ==
    /\ Ready("visualSnapshot")
    /\ Ran
    /\ queue' = InsertChildren(From(visualSnapshot(Head(queue).arg, cyEnv),
                                    Head(queue).src), Tail(queue))
    /\ UNCHANGED <<aux, inputs, config, runner, browser, routes, setupRan, failed,
                   snapshots, rb>>

ExecPercySnapshot ==
    /\ Ready("percySnapshot")
    /\ Ran
    /\ snapshots' = snapshots \cup {Head(queue).arg}
    /\ queue' = Tail(queue)
    /\ UNCHANGED <<aux, inputs, config, runner, browser, routes, setupRan, failed, rb>>

ExecLog ==
    /\ Ready("log")
    /\ Ran
    /\ queue' = Tail(queue)
    /\ UNCHANGED <<aux, inputs, config, runner, browser, routes, setupRan, failed,
                   snapshots, rb>>

ExecWait ==
    /\ Ready("wait")
    /\ Ran
    /\ queue' = Tail(queue)
    /\ UNCHANGED <<aux, inputs, config, runner, browser, routes, setupRan, failed,
                   snapshots, rb>>

\* cy.getCookies().then(...): one cy.log per cookie.
ExecGetCookies ==
    /\ Ready("getCookies")
    /\ Ran
    /\ queue' = InsertChildren(
                  From([i \in 1..Cardinality(cookies) |-> Cmd("log", "Cookie:", 0)],
                       Head(queue).src),
                  Tail(queue))
    /\ UNCHANGED <<aux, inputs, config, runner, browser, routes, setupRan, failed,
                   snapshots, rb>>

\* retryWithBackoff(action): the call starts with retries = 0.
ExecRetryWithBackoff ==
    /\ Ready("retryWithBackoff")
    /\ Ran
    /\ rb' = [active |-> TRUE, retries |-> 0, calls |-> 0, result |-> None]
    /\ queue' = Tail(queue)
    /\ UNCHANGED <<aux, inputs, config, runner, browser, routes, setupRan, failed,
                   snapshots>>

\* attempt(): action() resolves, or rejects and the catch handler either
\* enqueues the wait and calls attempt() again or rethrows.
RbAttempt ==
    /\ rb.active
    /\ \E ok \in BOOLEAN :
         IF ok
         THEN /\ rb' = [rb EXCEPT !.active = FALSE, !.calls = @ + 1,
                                  !.result = "resolved"]
              /\ UNCHANGED <<queue, failed>>
         ELSE IF RbShouldRetry(rb.retries)
              THEN /\ rb' = [rb EXCEPT !.retries = @ + 1, !.calls = @ + 1]
                   /\ queue' = InsertChildren(
                                 From(<< Cmd("wait", "", RbDelay(rb.retries)) >>, phase),
                                 queue)
                   /\ UNCHANGED failed
              ELSE /\ rb' = [rb EXCEPT !.active = FALSE, !.calls = @ + 1,
                                       !.result = "rejected"]
                   /\ failed' = TRUE
                   /\ queue' = << >>
    /\ UNCHANGED <<aux, inputs, config, runner, browser, events, routes, setupRan,
                   trace, snapshots>>

Next ==
    \/ LoadConfigTs
    \/ LoadConfigJs
    \/ StartTest
    \/ EndRun
    \/ Isolate
    \/ EnterHook
    \/ LeaveHook
    \/ FinishAttempt
    \/ ExecClearCookies
    \/ ExecClearLocalStorage
    \/ ExecSetupIntercepts
    \/ ExecIntercept
    \/ ExecVisit
    \/ ExecShould
    \/ ExecWaitForPageReady
    \/ ExecVisualSnapshot
    \/ ExecPercySnapshot
    \/ ExecLog
    \/ ExecWait
    \/ ExecGetCookies
    \/ ExecRetryWithBackoff
    \/ RbAttempt

Spec == Init /\ [][Next]_vars

-----------------------------------------------------------------------------
(* Properties                                                               *)

IsTs == config.loaded /\ configFile = "cypress.config.ts"

\* C1: with cypress.config.ts, CYPRESS_ENV unset or empty gives the production
\* baseUrl https://www.fyul.com, staging gives https://staging.fyul.com,
\* development gives http://localhost:3000, and env.apiUrl is the apiUrl of
\* that same environment.
C1_EnvironmentSelection ==
    IsTs =>
      /\ cypressEnv \in {Undefined, ""} =>
           /\ config.baseUrl = "https://www.fyul.com"
           /\ config.apiUrl = "https://api.fyul.com"
      /\ cypressEnv = "staging" =>
           /\ config.baseUrl = "https://staging.fyul.com"
           /\ config.apiUrl = "https://api-staging.fyul.com"
      /\ cypressEnv = "development" =>
           /\ config.baseUrl = "http://localhost:3000"
           /\ config.apiUrl = "http://localhost:4000"

C1_Witness ==
    /\ IsTs
    /\ cypressEnv = "staging"
    /\ config.baseUrl = "https://staging.fyul.com"
    /\ phase = "body"

\* C2: every CYPRESS_ENV value other than production, staging and development
\* falls back to production: baseUrl and env.apiUrl are the production values.
C2_FallbackToProduction ==
    (IsTs /\ cypressEnv \notin {"production", "staging", "development"}) =>
      /\ config.baseUrl = "https://www.fyul.com"
      /\ config.apiUrl = "https://api.fyul.com"

\* C3: env.environment names the environment whose baseUrl and apiUrl are in
\* effect: environments[env.environment] exists and has the configured
\* baseUrl and apiUrl.
C3_EnvironmentNamesEffective ==
    IsTs =>
      /\ config.environment \in DOMAIN environments
      /\ environments[config.environment].baseUrl = config.baseUrl
      /\ environments[config.environment].apiUrl = config.apiUrl

BodyStart == phase = "body" /\ ~entered

\* C4 as stated: every test body, on every attempt, starts with no cookies and
\* an empty localStorage.
C4_BodyStartsEmpty ==
    BodyStart => cookies = {} /\ localStorage = {}

\* C4 as amended: when the global beforeEach has run and the spec file's
\* beforeEach has not started, there are no cookies and localStorage is empty;
\* and throughout an attempt every cookie and localStorage entry present was
\* created by that same attempt, never by an earlier test or attempt.
C4_NoStateFromEarlierAttempts ==
    /\ (phase = "spec" /\ ~entered) => cookies = {} /\ localStorage = {}
    /\ phase \in Hooks =>
         \A e \in cookies \cup localStorage :
            e.test = current /\ e.attempt = attempt

C4_Witness ==
    /\ BodyStart
    /\ attempt > 1
    /\ Executed = 2
    /\ cookies # {}
    /\ \A e \in cookies : e.test = current /\ e.attempt = attempt

ExpectedGlobal ==
    << "clearCookies", "clearLocalStorage", "setupIntercepts",
       "intercept", "intercept", "intercept", "intercept",
       "intercept", "intercept", "intercept" >>

SevenAliases ==
    {"analytics", "gtag", "gtm", "googleTagManager", "googleAnalytics",
     "facebook", "facebookConnect"}

\* C5: with support/e2e.ts, in every attempt the global beforeEach runs first
\* (clearCookies, clearLocalStorage, setupIntercepts and its seven intercepts,
\* in that order), then the commands of the spec file's beforeEach, then those
\* of the test body; no spec-level or body command runs before the seven
\* default intercepts are registered.
C5_HookOrdering ==
    (config.loaded /\ config.supportFile = "e2e.ts") =>
      /\ \A i \in 1..Len(trace) :
           IF i <= Len(ExpectedGlobal)
           THEN trace[i].src = "global" /\ trace[i].op = ExpectedGlobal[i]
           ELSE trace[i].src \in {"spec", "body"}
      /\ \A i, j \in 1..Len(trace) :
           (i < j /\ trace[i].src = "body") => trace[j].src = "body"
      /\ (phase \in {"spec", "body"} \/ \E i \in 1..Len(trace) : trace[i].src # "global") =>
           /\ Len(routes) = 7
           /\ {routes[i].alias : i \in 1..Len(routes)} = SevenAliases
      /\ (queue # << >> /\ Head(queue).src # "global") => Len(trace) >= Len(ExpectedGlobal)

C5_Witness ==
    /\ config.supportFile = "e2e.ts"
    /\ current = "home"
    /\ Len(trace) > Len(ExpectedGlobal) + 3
    /\ trace[Len(ExpectedGlobal) + 1].op = "visit"
    /\ trace[Len(ExpectedGlobal) + 1].src = "spec"
    /\ trace[Len(trace)].src = "body"

\* C6: in run mode a failing test is retried up to 2 times: at most 3
\* attempts, no attempt after the first passing one, reported failed only when
\* all 3 attempts failed; in open mode exactly one attempt, and a single
\* failure is reported as failed.
C6_TestRetries ==
    \A t \in AllTests :
      LET o == outcomes[t]
          limit == IF mode = "run" THEN 3 ELSE 1
      IN  /\ Len(o) <= limit
          /\ \A i \in 1..(Len(o) - 1) : o[i] = "fail"
          /\ results[t] = "failed" =>
               Len(o) = limit /\ \A i \in 1..Len(o) : o[i] = "fail"
          /\ results[t] = "passed" => o # << >> /\ o[Len(o)] = "pass"
          /\ (o # << >> /\ o[Len(o)] = "pass") => results[t] = "passed"
          /\ (Len(o) = limit /\ o[limit] = "fail") => results[t] = "failed"
          /\ results[t] # None => (t # current \/ phase \in {"pick", "done"})

C6_Witness ==
    /\ mode = "run"
    /\ \E t \in AllTests :
         outcomes[t] = <<"fail", "fail", "fail">> /\ results[t] = "failed"
    /\ \E t \in AllTests :
         outcomes[t] = <<"fail", "pass">> /\ results[t] = "passed"

\* C7 as stated: no helper of the repository re-attempts a failed action by
\* itself: an action handed to a helper is called at most once.
C7_NoRecovery == rb.calls <= 1

\* C7 as amended: retryWithBackoff re-attempts a failed action by itself: it
\* calls the action again after each rejection while fewer than 3 retries were
\* made, so at most 4 calls; it gives up (and the test fails) only after the
\* 4th call rejected, and stops at the first call that resolves.
C7_RetryWithBackoffRecovers ==
    /\ rb.calls <= 4
    /\ rb.retries <= 3
    /\ rb.active => rb.calls = rb.retries
    /\ rb.result = "resolved" => ~rb.active /\ rb.calls = rb.retries + 1
    /\ rb.result = "rejected" => ~rb.active /\ rb.calls = 4 /\ failed

C7_Witness ==
    /\ rb.result = "resolved"
    /\ rb.calls = 3
    /\ ~failed

RejectedFourTimes == rb.result = "rejected" /\ rb.calls = 4

SevenPatterns ==
    { <<"**", "analytics", "**">>, <<"**", "gtag", "**">>, <<"**", "gtm.js">>,
      <<"**", "googletagmanager.com", "**">>, <<"**", "google-analytics.com", "**">>,
      <<"**", "facebook.net", "**">>, <<"**", "connect.facebook.net", "**">> }

InterceptsSetUp ==
    setupRan /\ \A i \in 1..Len(queue) : queue[i].op # "intercept"

\* C9: once setupIntercepts has run, a request whose URL matches one of the
\* seven patterns is answered by the stub with status 200 and is not forwarded
\* to the server; a request matching none of them is not stubbed.
C9_DefaultIntercepts ==
    (InterceptsSetUp /\ lastReq.outcome # None) =>
      IF \E p \in SevenPatterns : GlobMatch(p, lastReq.url)
      THEN lastReq.outcome = "stubbed" /\ lastReq.statusCode = 200
      ELSE lastReq.outcome = "forwarded"

C9_Witness ==
    /\ InterceptsSetUp
    /\ lastReq.url = <<"https:", "", "connect.facebook.net", "en_US", "sdk.js">>
    /\ lastReq.outcome = "stubbed"
    /\ lastReq.alias = "facebookConnect"

ForwardedWitness ==
    /\ InterceptsSetUp
    /\ lastReq.url = <<"https:", "", "www.fyul.com", "assets", "app.js">>
    /\ lastReq.outcome = "forwarded"

PercyConfigured == cyEnv.PERCY_TOKEN = "'tok'" \/ cyEnv.visual = "true"

\* C10: visualSnapshot(name) calls percySnapshot(name) exactly when PERCY_TOKEN
\* or visual is truthy; otherwise it only logs that the snapshot was skipped,
\* no snapshot is taken, and the test does not fail.
C10_VisualSnapshot ==
    /\ (trace # << >> /\ trace[Len(trace)].op = "visualSnapshot") =>
         /\ ~failed
         /\ queue # << >>
         /\ IF PercyConfigured
            THEN /\ Head(queue).op = "percySnapshot"
                 /\ Head(queue).arg = trace[Len(trace)].arg
            ELSE /\ Head(queue).op = "log"
                 /\ Head(queue).arg = "[Visual] Skipped snapshot"
                 /\ \A i \in 1..Len(queue) : queue[i].op # "percySnapshot"
    /\ ~PercyConfigured => snapshots = {}
    /\ \A i \in 1..Len(trace) :
         trace[i].op = "percySnapshot" =>
            /\ PercyConfigured
            /\ i > 1
            /\ trace[i - 1].op = "visualSnapshot"
            /\ trace[i - 1].arg = trace[i].arg

C10_Witness ==
    /\ cyEnv.PERCY_TOKEN = Undefined
    /\ cyEnv.visual = "true"
    /\ trace # << >>
    /\ trace[Len(trace)].op = "percySnapshot"
    /\ snapshots = {"About Page"}

SkippedWitness ==
    /\ cyEnv.visual = "false"
    /\ cyEnv.PERCY_TOKEN = Undefined
    /\ Len(trace) > 1
    /\ trace[Len(trace)].op = "log"
    /\ trace[Len(trace) - 1].op = "visualSnapshot"
    /\ phase = "finish"
    /\ ~failed

-----------------------------------------------------------------------------
(* support/visual.ts: visualSnapshotResponsive                              *)

viewports ==
    << [width |-> 375,  height |-> 667,  name |-> "mobile"],
       [width |-> 768,  height |-> 1024, name |-> "tablet"],
       [width |-> 1920, height |-> 1080, name |-> "desktop"] >>

\* A command of this scenario. The name of a snapshot, `${name}-${viewportName}`,
\* is the pair of its two parts; widths is options.widths.
VCmd(op, name, width, height, widths) ==
    [op |-> op, name |-> name, width |-> width, height |-> height, widths |-> widths]

\* One iteration of the forEach: cy.viewport, then cy.visualSnapshot.
ResponsiveStep_snapshotFirst(name, v) ==
    << VCmd("visualSnapshot", <<name, v.name>>, 0, 0, <<v.width>>),
       VCmd("viewport", << >>, v.width, v.height, << >>) >>
ResponsiveStep(name, v) ==
    << VCmd("viewport", << >>, v.width, v.height, << >>),
       VCmd("visualSnapshot", <<name, v.name>>, 0, 0, <<v.width>>) >>

RECURSIVE ForEachViewport(_, _)
ForEachViewport(vs, name) ==
    IF vs = << >> THEN << >>
    ELSE ResponsiveStep(name, Head(vs)) \o ForEachViewport(Tail(vs), name)

\* The commands visualSnapshotResponsive(name) enqueues.
visualSnapshotResponsive(name) == ForEachViewport(viewports, name)

\* visualSnapshot(name, options): the command it enqueues.
visualSnapshotWith(name, widths, env) ==
    IF PercyEnabled(env)
    THEN << VCmd("percySnapshot", name, 0, 0, widths) >>
    ELSE << VCmd("log", name, 0, 0, << >>) >>

SnapshotNames == {"Home Page", "About Page"}
StartViewports ==
    {[width |-> viewports[i].width, height |-> viewports[i].height] :
        i \in 1..Len(viewports)}

InitVisual ==
    /\ configFile = "cypress.config.ts"
    /\ cypressEnv = Undefined
    /\ mode = "run"
    /\ cyEnv \in CyEnvInputs
    /\ NotStarted
    /\ \E name \in SnapshotNames :
         /\ vcall = [at |-> "queued", name |-> name]
         /\ vqueue = << VCmd("visualSnapshotResponsive", <<name>>, 0, 0, << >>) >>
    /\ viewport \in StartViewports
    /\ shots = << >>
    /\ PagesIdle
    /\ NavigationIdle
    /\ PerformanceIdle
    /\ SeoIdle
    /\ RetryIdle

suite == <<configFile, cypressEnv, mode, cyEnv, config, phase, entered, remaining,
           current, attempt, queue, cookies, localStorage, routes, setupRan,
           failed, outcomes, results, trace, lastReq, lastExc, snapshots, rb>>
notVisual == <<suite, pageVars, navVars, perfVars, seoVars, retryVars>>

VReady(op) == vqueue # << >> /\ Head(vqueue).op = op

VExecResponsive ==
    /\ VReady("visualSnapshotResponsive")
    /\ vcall' = [vcall EXCEPT !.at = "running"]
    /\ vqueue' = InsertChildren(visualSnapshotResponsive(vcall.name), Tail(vqueue))
    /\ UNCHANGED <<notVisual, viewport, shots>>

VExecViewport ==
    /\ VReady("viewport")
    /\ viewport' = [width |-> Head(vqueue).width, height |-> Head(vqueue).height]
    /\ vqueue' = Tail(vqueue)
    /\ UNCHANGED <<notVisual, vcall, shots>>

\* What a snapshot command saw when it ran.
Shot(kind, c) ==
    [kind |-> kind, name |-> c.name, widths |-> c.widths, viewport |-> viewport]

VExecVisualSnapshot ==
    /\ VReady("visualSnapshot")
    /\ shots' = Append(shots, Shot("request", Head(vqueue)))
    /\ vqueue' = InsertChildren(visualSnapshotWith(Head(vqueue).name,
                                                   Head(vqueue).widths, cyEnv),
                                Tail(vqueue))
    /\ UNCHANGED <<notVisual, vcall, viewport>>

VExecPercySnapshot ==
    /\ VReady("percySnapshot")
    /\ shots' = Append(shots, Shot("percy", Head(vqueue)))
    /\ vqueue' = Tail(vqueue)
    /\ UNCHANGED <<notVisual, vcall, viewport>>

VExecLog ==
    /\ VReady("log")
    /\ vqueue' = Tail(vqueue)
    /\ UNCHANGED <<notVisual, vcall, viewport, shots>>

NextVisual ==
    \/ VExecResponsive
    \/ VExecViewport
    \/ VExecVisualSnapshot
    \/ VExecPercySnapshot
    \/ VExecLog

SpecVisual == InitVisual /\ [][NextVisual]_vars

\* visualSnapshotResponsive and everything it enqueued have run.
VDone == vcall.at = "running" /\ vqueue = << >>

OfKind(kind) == SelectSeq(shots, LAMBDA s : s.kind = kind)
ShotNames(ss) == [i \in 1..Len(ss) |-> ss[i].name]
ResponsiveNames == [i \in 1..Len(viewports) |-> <<vcall.name, viewports[i].name>>]

\* The snapshot was made under the viewport of its own name, with that
\* viewport's width as its only width.
OwnViewport(s) ==
    \E i \in 1..Len(viewports) :
        /\ s.name = <<vcall.name, viewports[i].name>>
        /\ s.viewport = [width |-> viewports[i].width, height |-> viewports[i].height]
        /\ s.widths = <<viewports[i].width>>

\* C11: visualSnapshotResponsive(name) makes exactly three snapshot requests,
\* name-mobile, name-tablet, name-desktop in that order; every snapshot
\* request, and every Percy snapshot it leads to, is made while the viewport
\* is the one of its own name, with widths = [that viewport's width]; when the
\* command has completed the viewport is 1920x1080.
C11_ResponsiveSnapshots ==
    /\ \A i \in 1..Len(shots) : OwnViewport(shots[i])
    /\ VDone =>
         /\ ShotNames(OfKind("request")) = ResponsiveNames
         /\ PercyEnabled(cyEnv) => ShotNames(OfKind("percy")) = ResponsiveNames
         /\ viewport = [width |-> 1920, height |-> 1080]

\* The command completed with Percy configured: three requests, three Percy
\* snapshots.
C11_Witness ==
    /\ VDone
    /\ Len(OfKind("percy")) = 3
    /\ Len(OfKind("request")) = 3

-----------------------------------------------------------------------------
(* pages/: the page objects                                                 *)

PageClasses == {"HomePage", "AboutPage", "LeadershipPage", "PrivacyPolicyPage"}

\* A path, a URL and a title are the sequences of their parts, so that
\* String.prototype.includes is the test for a contiguous subsequence.
IncludesSeq(s, sub) ==
    \E i \in 0..(Len(s) - Len(sub)) : \A j \in 1..Len(sub) : s[i + j] = sub[j]

path(class) ==
    CASE class = "HomePage"          -> <<"/">>
      [] class = "AboutPage"         -> <<"/", "about">>
      [] class = "LeadershipPage"    -> <<"/", "leadership">>
      [] class = "PrivacyPolicyPage" -> <<"/", "privacy-policy">>

\* pageTitle is a case-insensitive RegExp in every page object: the set of
\* its alternatives, in lower case.
pageTitle(class) ==
    CASE class = "HomePage"          -> {"fyul"}
      [] class = "AboutPage"         -> {"about", "fyul"}
      [] class = "LeadershipPage"    -> {"leadership", "fyul"}
      [] class = "PrivacyPolicyPage" -> {"privacy", "fyul"}

ToLowerCase(w) ==
    CASE w = "FYUL"  -> "fyul"
      [] w = "About" -> "about"
      [] OTHER       -> w

\* title.match(/a|b/i)
TitleMatches(title, regexp) ==
    \E i \in DOMAIN title : ToLowerCase(title[i]) \in regexp

\* A statement of a method body: one cy chain, or a call of another method of
\* the same object.
Chain(op, arg) == [kind |-> "chain", op |-> op, arg |-> arg]
Invoke(method) == [kind |-> "call", op |-> method, arg |-> << >>]
Query == Chain("query", << >>)

BasePageMethods ==
    {"visit", "waitForPageReady", "verifyPageLoaded", "getByTestId", "getByRole",
     "safeClick", "assertVisible", "assertText", "assertAttribute", "screenshot",
     "scrollTo"}

\* The methods a class declares itself.
Declared(class) ==
    CASE class = "BasePage" -> BasePageMethods
      [] class = "HomePage" ->
           {"verifyHeroSection", "verifyNavigation", "verifyFooter",
            "verifyBrandLinks", "verifyCareersLink", "verifyLeadershipLink",
            "clickAboutLink", "clickLeadershipLink", "clickPrivacyLink",
            "clickCareersLink", "verifyAllSections"}
      [] class = "AboutPage" ->
           {"verifyPageLoaded", "verifyHeading", "verifyVision", "verifyContent",
            "verifyHistorySection", "verifyJoinSection"}
      [] class = "LeadershipPage" ->
           {"verifyPageLoaded", "verifyHeading", "verifyLeaderSection",
            "verifyLeader", "verifyBoardSection", "verifyCEO", "verifyJoinSection"}
      [] class = "PrivacyPolicyPage" ->
           {"verifyPageLoaded", "verifyHeading", "verifyContent", "verifySections",
            "verifySection", "verifyContactInfo", "verifyRightsSection"}

Methods(class) == Declared(class) \cup BasePageMethods

\* The class whose declaration of the method an instance of `class` runs.
Resolve_baseOnly(class, method) == "BasePage"
Resolve(class, method) ==
    IF method \in Declared(class) THEN class ELSE "BasePage"

\* BasePage's method bodies; `this` is an instance of `class`.
BasePageBody_urlOnly(class, method) ==
    CASE method = "visit" ->
           << Chain("visit", path(class)), Invoke("waitForPageReady") >>
      [] method = "verifyPageLoaded" ->
           << Chain("url.include", path(class)) >>
      [] method \in {"waitForPageReady", "screenshot"} -> << Query, Query >>
      [] OTHER -> << Query >>
BasePageBody(class, method) ==
    CASE method = "visit" ->
           << Chain("visit", path(class)), Invoke("waitForPageReady") >>
      [] method = "verifyPageLoaded" ->
           << Chain("url.include", path(class)),
              Chain("title.match", pageTitle(class)) >>
      [] method \in {"waitForPageReady", "screenshot"} -> << Query, Query >>
      [] OTHER -> << Query >>

\* The own method bodies of the page classes. brands is the argument of
\* verifyBrandLinks: the number of brands listed, -1 when it is left out.
OwnBody(class, method, brands) ==
    CASE method = "verifyPageLoaded" -> << Chain("url.include", path(class)) >>
      [] method \in {"verifyHeroSection", "verifyNavigation", "verifyFooter",
                     "verifyContent"} -> << Query, Query >>
      [] method = "verifyBrandLinks" ->
           IF brands = -1 THEN << Query >> ELSE [i \in 1..brands |-> Query]
      [] method = "clickAboutLink" ->
           << Chain("click", path("AboutPage")), Invoke("waitForPageReady") >>
      [] method = "clickLeadershipLink" ->
           << Chain("click", path("LeadershipPage")), Invoke("waitForPageReady") >>
      [] method = "clickPrivacyLink" ->
           << Chain("click", path("PrivacyPolicyPage")), Invoke("waitForPageReady") >>
      [] method = "verifyAllSections" ->
           << Invoke("verifyHeroSection"), Invoke("verifyNavigation"),
              Invoke("verifyBrandLinks"), Invoke("verifyFooter") >>
      [] OTHER -> << Query >>

Body(class, method, brands) ==
    IF Resolve(class, method) = "BasePage"
    THEN BasePageBody(class, method)
    ELSE OwnBody(class, method, brands)

\* What the method returns: `this`, or the chainable of its cy.get.
Returns_nothing(method) == "undefined"
Returns(method) ==
    IF method \in {"getByTestId", "getByRole"} THEN "chainable" ELSE "this"

\* The commands a call of the method enqueues, in order, each with the
\* method that issued it; nested calls pass no argument.
RECURSIVE Enqueued(_, _, _), EnqueuedBy(_, _, _)
EnqueuedBy(class, stmts, method) ==
    IF stmts = << >> THEN << >>
    ELSE LET st == Head(stmts)
         IN  (IF st.kind = "chain"
              THEN << [op |-> st.op, arg |-> st.arg, method |-> method] >>
              ELSE Enqueued(class, st.op, -1))
             \o EnqueuedBy(class, Tail(stmts), method)
Enqueued(class, method, brands) ==
    EnqueuedBy(class, Body(class, method, brands), method)

OfStatementKind(stmts, kind) == SelectSeq(stmts, LAMBDA st : st.kind = kind)

MaxCalls == 2
MaxBrands == 2

baseUrl == <<"https:", "/", "/", "www.fyul.com">>
Titles == {<<"FYUL">>, <<"About", "us">>, <<"Page", "Not", "Found">>}
Docs == {[url |-> baseUrl \o path(c), title |-> t] : c \in PageClasses, t \in Titles}
BrandArgs(method) == IF method = "verifyBrandLinks" THEN -1..MaxBrands ELSE {-1}

InitPages ==
    /\ configFile = "cypress.config.ts"
    /\ cypressEnv = Undefined
    /\ mode = "run"
    /\ cyEnv = NoCyEnv
    /\ NotStarted
    /\ VisualIdle
    /\ NavigationIdle
    /\ PerformanceIdle
    /\ SeoIdle
    /\ RetryIdle
    /\ \E c \in PageClasses : page = [class |-> c, id |-> 1]
    /\ chain = page
    /\ calls = << >>
    /\ pqueue = << >>
    /\ doc = Blank
    /\ verdicts = << >>
    /\ pphase = "body"

notPages == <<suite, visualVars, navVars, perfVars, seoVars, retryVars>>

\* The test body calls a method on the value of the chain so far.
CallMethod ==
    /\ pphase = "body"
    /\ Len(calls) < MaxCalls
    /\ chain.class \in PageClasses
    /\ \E method \in Methods(chain.class) : \E brands \in BrandArgs(method) :
         LET stmts == Body(chain.class, method, brands)
             n == Len(calls) + 1
             cmds == Enqueued(chain.class, method, brands)
         IN  /\ calls' = Append(calls,
                    [method  |-> method,
                     chains  |-> Len(OfStatementKind(stmts, "chain")),
                     invoked |-> [i \in 1..Len(OfStatementKind(stmts, "call")) |->
                                    OfStatementKind(stmts, "call")[i].op],
                     total   |-> Len(cmds)])
             /\ pqueue' = pqueue \o
                    [i \in 1..Len(cmds) |->
                       [op |-> cmds[i].op, arg |-> cmds[i].arg,
                        method |-> cmds[i].method, call |-> n]]
             /\ chain' = CASE Returns(method) = "this" -> chain
                           [] Returns(method) = "chainable" ->
                                [class |-> "Chainable", id |-> 0]
                           [] OTHER -> [class |-> "undefined", id |-> 0]
    /\ UNCHANGED <<notPages, page, doc, verdicts, pphase>>

\* The test body returns; the queue starts to run.
EndBody ==
    /\ pphase = "body"
    /\ pphase' = IF pqueue = << >> THEN "passed" ELSE "run"
    /\ UNCHANGED <<notPages, page, chain, calls, pqueue, doc, verdicts>>

PReady(op) == pphase = "run" /\ pqueue # << >> /\ Head(pqueue).op = op

\* The command at the head of the queue ended; a failure ends the test.
PRan(ok) ==
    /\ verdicts' = Append(verdicts,
           [call |-> Head(pqueue).call, method |-> Head(pqueue).method,
            op |-> Head(pqueue).op, ok |-> ok, doc |-> doc])
    /\ pqueue' = IF ok THEN Tail(pqueue) ELSE << >>
    /\ pphase' = IF ~ok THEN "failed"
                 ELSE IF Tail(pqueue) = << >> THEN "passed" ELSE "run"

\* cy.visit(path): the server answers with some page, or the visit fails.
PExecVisit ==
    /\ PReady("visit")
    /\ \E ok \in BOOLEAN :
         /\ PRan(ok)
         /\ IF ok THEN doc' \in Docs ELSE doc' = doc
    /\ UNCHANGED <<notPages, page, chain, calls>>

\* A click on a link: the link is there or not; the browser shows the link's
\* page by the time the next command looks, or still the old one.
PExecClick ==
    /\ PReady("click")
    /\ \E ok \in BOOLEAN :
         /\ PRan(ok)
         /\ IF ok
            THEN doc' \in {doc} \cup {d \in Docs : d.url = baseUrl \o Head(pqueue).arg}
            ELSE doc' = doc
    /\ UNCHANGED <<notPages, page, chain, calls>>

\* cy.url().should('include', path)
PExecUrlInclude ==
    /\ PReady("url.include")
    /\ PRan(IncludesSeq(doc.url, Head(pqueue).arg))
    /\ UNCHANGED <<notPages, page, chain, calls, doc>>

\* cy.title().should('match', pageTitle)
PExecTitleMatch ==
    /\ PReady("title.match")
    /\ PRan(TitleMatches(doc.title, Head(pqueue).arg))
    /\ UNCHANGED <<notPages, page, chain, calls, doc>>

\* Any other query with its assertions: it passes or it times out.
PExecQuery ==
    /\ PReady("query")
    /\ \E ok \in BOOLEAN : PRan(ok)
    /\ UNCHANGED <<notPages, page, chain, calls, doc>>

NextPages ==
    \/ CallMethod
    \/ EndBody
    \/ PExecVisit
    \/ PExecClick
    \/ PExecUrlInclude
    \/ PExecTitleMatch
    \/ PExecQuery

SpecPages == InitPages /\ [][NextPages]_vars

\* The verdicts of the commands the k-th call of the test body enqueued.
VerdictsOf(k) == SelectSeq(verdicts, LAMBDA v : v.call = k)

\* Every command the k-th call enqueued has run and passed.
Passed(k) ==
    /\ Len(VerdictsOf(k)) = calls[k].total
    /\ \A i \in 1..Len(VerdictsOf(k)) : VerdictsOf(k)[i].ok

SelectorHelpers == {"getByTestId", "getByRole"}

C13_UrlAndTitleEverywhere ==
    \A k \in DOMAIN calls :
        calls[k].method = "verifyPageLoaded" /\ Passed(k) =>
            \A i \in 1..Len(VerdictsOf(k)) :
                /\ IncludesSeq(VerdictsOf(k)[i].doc.url, path(page.class))
                /\ TitleMatches(VerdictsOf(k)[i].doc.title, pageTitle(page.class))

\* C13: HomePage inherits BasePage.verifyPageLoaded, which passes only if the
\* URL includes the path and the title matches pageTitle; AboutPage,
\* LeadershipPage and PrivacyPolicyPage override it with the URL check alone,
\* which passes exactly when the URL includes the path, whatever the title.
C13_VerifyPageLoaded ==
    \A k \in DOMAIN calls :
        calls[k].method = "verifyPageLoaded" =>
            LET vs == VerdictsOf(k)
            IN  /\ \A i \in 1..Len(vs) :
                     vs[i].op = "url.include" =>
                         vs[i].ok = IncludesSeq(vs[i].doc.url, path(page.class))
                /\ IF page.class = "HomePage"
                   THEN Passed(k) =>
                          \A i \in 1..Len(vs) :
                              /\ IncludesSeq(vs[i].doc.url, path(page.class))
                              /\ TitleMatches(vs[i].doc.title, pageTitle(page.class))
                   ELSE /\ calls[k].total = 1
                        /\ \A i \in 1..Len(vs) : vs[i].op = "url.include"

\* HomePage.verifyPageLoaded passed on a page whose title matches /FYUL/i.
C13_Witness ==
    /\ page.class = "HomePage"
    /\ \E k \in DOMAIN calls :
         /\ calls[k].method = "verifyPageLoaded"
         /\ Passed(k)
         /\ TitleMatches(doc.title, pageTitle("HomePage"))

\* An overriding verifyPageLoaded passed although the title matches nothing.
C13_OverrideWitness ==
    /\ page.class = "AboutPage"
    /\ \E k \in DOMAIN calls :
         /\ calls[k].method = "verifyPageLoaded"
         /\ Passed(k)
         /\ ~TitleMatches(doc.title, pageTitle("AboutPage"))

\* C14: when the browser shows another of the four pages than the page
\* object's own, the URL check of its verifyPageLoaded fails.
C14_WrongPageDetected ==
    \A i \in DOMAIN verdicts :
        LET v == verdicts[i]
        IN  /\ v.method = "verifyPageLoaded"
            /\ v.op = "url.include"
            /\ \E c \in PageClasses \ {page.class} : v.doc.url = baseUrl \o path(c)
            => ~v.ok

WaitsForPageReady == {"visit", "clickAboutLink", "clickLeadershipLink", "clickPrivacyLink"}
AllSections ==
    <<"verifyHeroSection", "verifyNavigation", "verifyBrandLinks", "verifyFooter">>
TwoChains ==
    {"waitForPageReady", "screenshot", "verifyHeroSection", "verifyNavigation",
     "verifyFooter", "verifyContent"}

\* C20 as stated: every call of a page-object method issues exactly one chain
\* of its own and invokes no other page-object method.
C20_OneToOne ==
    \A k \in DOMAIN calls : calls[k].chains = 1 /\ calls[k].invoked = << >>

\* C20: page-object methods only issue cy chains, but not one each: visit and
\* the three click*Link methods that wait issue one chain and then invoke
\* waitForPageReady; verifyAllSections issues none and invokes the four
\* section checks; every other method invokes no page-object method and
\* issues one chain, or two (waitForPageReady, screenshot, verifyHeroSection,
\* verifyNavigation, verifyFooter, verifyContent, the inherited
\* verifyPageLoaded), or one per listed brand (verifyBrandLinks).
C20_ThinWrappers ==
    \A k \in DOMAIN calls :
        LET c == calls[k]
        IN  CASE c.method \in WaitsForPageReady ->
                   c.chains = 1 /\ c.invoked = <<"waitForPageReady">> /\ c.total = 3
              [] c.method = "verifyAllSections" ->
                   c.chains = 0 /\ c.invoked = AllSections /\ c.total = 7
              [] c.method = "verifyBrandLinks" ->
                   c.chains \in {1} \cup 0..MaxBrands /\ c.invoked = << >>
              [] c.method \in TwoChains ->
                   c.chains = 2 /\ c.invoked = << >>
              [] c.method = "verifyPageLoaded" ->
                   /\ c.chains = IF page.class = "HomePage" THEN 2 ELSE 1
                   /\ c.invoked = << >>
              [] OTHER -> c.chains = 1 /\ c.invoked = << >>

\* verifyAllSections has been called and the seven chains of the four
\* methods it invokes have run.
C20_Witness ==
    \E k \in DOMAIN calls :
        /\ calls[k].method = "verifyAllSections"
        /\ Passed(k)

-----------------------------------------------------------------------------
(* Page loads: BasePage.visit, HomePage.click*Link, cy.waitForPageReady     *)

\* HomePage.clickAboutLink / clickLeadershipLink / clickPrivacyLink
ClickLink(target) == << Cmd("click", target, 0) >> \o waitForPageReady

LinkTargets == {"/about", "/leadership", "/privacy-policy"}
PagePaths == {"/"} \cup LinkTargets

\* What the test body does: page.visit(); homePage.click*Link() on the home
\* page its beforeEach visited; or cy.visit(path), cy.waitForPageReady().
\* Each is followed by one more command.
Scenarios ==
    {[kind |-> "visit", target |-> t] : t \in PagePaths}
    \cup {[kind |-> "click", target |-> t] : t \in LinkTargets}
    \cup {[kind |-> "command", target |-> t] : t \in LinkTargets}

BodyCmds(sc) ==
    (CASE sc.kind = "visit" -> BasePageVisit(sc.target)
       [] sc.kind = "click" -> ClickLink(sc.target)
       [] sc.kind = "command" ->
            << Cmd("visit", sc.target, 0), Cmd("waitForPageReady", None, 0) >>)
    \o << Cmd("next", sc.target, 0) >>

InitNavigation ==
    /\ configFile = "cypress.config.ts"
    /\ cypressEnv = Undefined
    /\ mode = "run"
    /\ cyEnv = NoCyEnv
    /\ NotStarted
    /\ VisualIdle
    /\ PagesIdle
    /\ PerformanceIdle
    /\ SeoIdle
    /\ RetryIdle
    /\ nscen \in Scenarios
    /\ nqueue = << >>
    /\ ndoc = IF nscen.kind = "click"
             THEN [path |-> "/", readyState |-> "complete", bodyVisible |-> TRUE]
             ELSE BlankDoc
    /\ pending = NoNav
    /\ ntrace = << >>
    /\ nphase = "body"

notNavigation == <<suite, visualVars, pageVars, perfVars, seoVars, retryVars>>

\* The test body runs: it enqueues its commands and returns.
NBody ==
    /\ nphase = "body"
    /\ nqueue' = BodyCmds(nscen)
    /\ nphase' = "run"
    /\ UNCHANGED <<notNavigation, nscen, ndoc, pending, ntrace>>

\* The next command can run: the runner holds the queue while a page load it
\* has seen start is in progress.
NReady(op, arg) ==
    /\ nphase = "run"
    /\ pending.state \in {"none", "requested"}
    /\ nqueue # << >>
    /\ Head(nqueue).op = op
    /\ arg # None => Head(nqueue).arg = arg

NRan(ok) ==
    /\ ntrace' = Append(ntrace, [op |-> Head(nqueue).op, arg |-> Head(nqueue).arg,
                                ok |-> ok, doc |-> ndoc])
    /\ nphase' = IF ~ok THEN "failed"
                 ELSE IF Len(nqueue) = 1 /\ Head(nqueue).op # "waitForPageReady"
                      THEN "passed" ELSE "run"

\* cy.visit resolves when the load event of the new page has fired.
NExecVisit ==
    /\ NReady("visit", None)
    /\ \E ok \in BOOLEAN, visible \in BOOLEAN :
         /\ NRan(ok)
         /\ nqueue' = IF ok THEN Tail(nqueue) ELSE << >>
         /\ ndoc' = IF ok
                    THEN [path |-> Head(nqueue).arg, readyState |-> "complete",
                          bodyVisible |-> visible]
                    ELSE ndoc
    /\ UNCHANGED <<notNavigation, nscen, pending>>

\* The custom command enqueues its two checks right behind itself.
NExecWaitForPageReady ==
    /\ NReady("waitForPageReady", None)
    /\ NRan(TRUE)
    /\ nqueue' = InsertChildren(waitForPageReady, Tail(nqueue))
    /\ UNCHANGED <<notNavigation, nscen, ndoc, pending>>

\* cy.document().its('readyState').should('eq', 'complete')
NExecReadyState ==
    /\ NReady("should", "readyState eq complete")
    /\ NRan(ndoc.readyState = "complete")
    /\ nqueue' = IF ndoc.readyState = "complete" THEN Tail(nqueue) ELSE << >>
    /\ UNCHANGED <<notNavigation, nscen, ndoc, pending>>

\* cy.get('body').should('be.visible')
NExecBodyVisible ==
    /\ NReady("should", "body be.visible")
    /\ NRan(ndoc.bodyVisible)
    /\ nqueue' = IF ndoc.bodyVisible THEN Tail(nqueue) ELSE << >>
    /\ UNCHANGED <<notNavigation, nscen, ndoc, pending>>

\* The click on the link: the browser will navigate, some time later.
NExecClick ==
    /\ NReady("click", None)
    /\ \E ok \in BOOLEAN :
         /\ NRan(ok)
         /\ nqueue' = IF ok THEN Tail(nqueue) ELSE << >>
         /\ pending' = IF ok THEN [state |-> "requested", target |-> Head(nqueue).arg]
                       ELSE pending
    /\ UNCHANGED <<notNavigation, nscen, ndoc>>

\* The command that follows the page method in the test.
NExecNext ==
    /\ NReady("next", None)
    /\ NRan(TRUE)
    /\ nqueue' = Tail(nqueue)
    /\ UNCHANGED <<notNavigation, nscen, ndoc, pending>>

\* The browser starts the navigation (beforeunload): the runner sees it.
NavStart ==
    /\ pending.state = "requested"
    /\ pending' = [pending EXCEPT !.state = "unloading"]
    /\ UNCHANGED <<notNavigation, nscen, nqueue, ndoc, ntrace, nphase>>

\* The new document replaces the old one.
NavCommit ==
    /\ pending.state = "unloading"
    /\ pending' = [pending EXCEPT !.state = "loading"]
    /\ \E visible \in BOOLEAN :
         ndoc' = [path |-> pending.target, readyState |-> "loading",
                  bodyVisible |-> visible]
    /\ UNCHANGED <<notNavigation, nscen, nqueue, ntrace, nphase>>

DocInteractive ==
    /\ pending.state = "loading"
    /\ ndoc.readyState = "loading"
    /\ ndoc' = [ndoc EXCEPT !.readyState = "interactive"]
    /\ UNCHANGED <<notNavigation, nscen, nqueue, pending, ntrace, nphase>>

\* The load event: the runner lets the queue go on.
DocComplete ==
    /\ pending.state = "loading"
    /\ ndoc.readyState = "interactive"
    /\ ndoc' = [ndoc EXCEPT !.readyState = "complete"]
    /\ pending' = NoNav
    /\ UNCHANGED <<notNavigation, nscen, nqueue, ntrace, nphase>>

\* pageLoadTimeout passes before the load event.
PageLoadTimeout ==
    /\ nphase = "run"
    /\ pending.state \in {"unloading", "loading"}
    /\ nphase' = "failed"
    /\ nqueue' = << >>
    /\ UNCHANGED <<notNavigation, nscen, ndoc, pending, ntrace>>

NextNavigation ==
    \/ NBody
    \/ NExecVisit
    \/ NExecWaitForPageReady
    \/ NExecReadyState
    \/ NExecBodyVisible
    \/ NExecClick
    \/ NExecNext
    \/ NavStart
    \/ NavCommit
    \/ DocInteractive
    \/ DocComplete
    \/ PageLoadTimeout

SpecNavigation == InitNavigation /\ [][NextNavigation]_vars

IsCheck(e, what) == e.op = "should" /\ e.arg = what

\* C15: a readiness check passes only on a document whose readyState is
\* 'complete', and the body check, which ends waitForPageReady, only on one
\* that is complete with a visible body; the body check starts only when the
\* readyState check has passed; after BasePage.visit (and cy.visit followed by
\* cy.waitForPageReady) the readyState check starts only when the visit has
\* succeeded, and when the test body has returned both checks are queued
\* behind the visit.
C15_PageReadiness ==
    /\ \A i \in DOMAIN ntrace :
         LET e == ntrace[i]
         IN  /\ IsCheck(e, "readyState eq complete") /\ e.ok =>
                    e.doc.readyState = "complete"
             /\ IsCheck(e, "body be.visible") /\ e.ok =>
                    e.doc.readyState = "complete" /\ e.doc.bodyVisible
             /\ IsCheck(e, "body be.visible") =>
                    /\ i > 1
                    /\ IsCheck(ntrace[i - 1], "readyState eq complete")
                    /\ ntrace[i - 1].ok
             /\ IsCheck(e, "readyState eq complete") /\ nscen.kind = "visit" =>
                    i = 2 /\ ntrace[1].op = "visit" /\ ntrace[1].ok
    /\ nscen.kind = "visit" /\ nphase = "run" /\ ntrace = << >> =>
         /\ Len(nqueue) = 4
         /\ nqueue[1] = Cmd("visit", nscen.target, 0)
         /\ nqueue[2] = Cmd("should", "readyState eq complete", 0)
         /\ nqueue[3] = Cmd("should", "body be.visible", 0)

\* page.visit() and the command after it have run.
C15_Witness ==
    /\ nscen.kind = "visit"
    /\ nphase = "passed"
    /\ Len(ntrace) = 4

\* C16: after HomePage.click*Link, the command that follows runs only when
\* the browser shows the link's page with readyState 'complete'.
C16_LoadedBeforeContinuing ==
    \A i \in DOMAIN ntrace :
        nscen.kind = "click" /\ ntrace[i].op = "next" =>
            /\ ntrace[i].doc.path = nscen.target
            /\ ntrace[i].doc.readyState = "complete"

-----------------------------------------------------------------------------
(* support/commands.ts: checkPerformance                                    *)

defaults ==
    [maxLoadTime |-> 5000, maxDomContentLoaded |-> 3000, maxFirstPaint |-> 2000,
     maxPageLoadTime |-> Absent]

\* { ...a, ...b }: every key b has overwrites the one of a.
Spread_firstWins(a, b) == [k \in DOMAIN a |-> IF a[k] # Absent THEN a[k] ELSE b[k]]
Spread(a, b) == [k \in DOMAIN a |-> IF b[k] # Absent THEN b[k] ELSE a[k]]

\* expect(value).to.be.lessThan(limit)
lessThan_orEqual(value, limit) == value <= limit
lessThan(value, limit) == value < limit

loadTime(navigation) == navigation.loadEventEnd - navigation.startTime
domContentLoaded(navigation) == navigation.domContentLoadedEventEnd - navigation.startTime

\* The callback of cy.window().then: the expectations hold.
Expectations(t, l) ==
    /\ t.navigation.present =>
         /\ lessThan(loadTime(t.navigation), l.maxLoadTime)
         /\ lessThan(domContentLoaded(t.navigation), l.maxDomContentLoaded)
    /\ t.firstPaint.present => lessThan(t.firstPaint.startTime, l.maxFirstPaint)

\* The cy.log calls the callback makes before an expectation fails, if one does.
Logs(t, l) ==
    (IF t.navigation.present THEN <<"Load Time", "DOM Content Loaded">> ELSE << >>)
    \o (IF /\ t.firstPaint.present
           /\ t.navigation.present =>
                /\ lessThan(loadTime(t.navigation), l.maxLoadTime)
                /\ lessThan(domContentLoaded(t.navigation), l.maxDomContentLoaded)
        THEN <<"First Paint">> ELSE << >>)

ThresholdValues == {1000, 4000}
Times == {999, 1000, 1999, 2000, 2999, 3000, 3999, 4000, 4999, 5000}

ThresholdInputs ==
    [maxLoadTime : {Absent} \cup ThresholdValues,
     maxDomContentLoaded : {Absent} \cup ThresholdValues,
     maxFirstPaint : {Absent} \cup ThresholdValues,
     maxPageLoadTime : {Absent, 10000}]

NavigationEntries ==
    {n \in [present : {TRUE}, startTime : {0},
            domContentLoadedEventEnd : Times, loadEventEnd : Times] :
        n.loadEventEnd >= n.domContentLoadedEventEnd}
PaintEntries == [present : {TRUE}, startTime : Times]

TimingInputs ==
    [navigation : {NoEntries.navigation} \cup NavigationEntries,
     firstPaint : {NoEntries.firstPaint} \cup PaintEntries]

InitPerformance ==
    /\ configFile = "cypress.config.ts"
    /\ cypressEnv = Undefined
    /\ mode = "run"
    /\ cyEnv = NoCyEnv
    /\ NotStarted
    /\ VisualIdle
    /\ PagesIdle
    /\ NavigationIdle
    /\ SeoIdle
    /\ RetryIdle
    /\ thresholds \in ThresholdInputs
    /\ timing \in TimingInputs
    /\ limits = NoThresholds
    /\ perfLog = [done |-> << >>, queued |-> << >>]
    /\ perf = "queued"

notPerformance == <<suite, visualVars, pageVars, navVars, seoVars, retryVars>>

\* The command runs: it merges the limits and enqueues cy.window().then.
ExecCheckPerformance ==
    /\ perf = "queued"
    /\ limits' = Spread(defaults, thresholds)
    /\ perf' = "window"
    /\ UNCHANGED <<notPerformance, thresholds, timing, perfLog>>

\* The callback runs: it enqueues the logs, and fails the test when an
\* expectation throws.
ExecWindowThen ==
    /\ perf = "window"
    /\ IF Expectations(timing, limits)
       THEN /\ perfLog' = [perfLog EXCEPT !.queued = Logs(timing, limits)]
            /\ perf' = IF Logs(timing, limits) = << >> THEN "passed" ELSE "logging"
       ELSE /\ perfLog' = perfLog
            /\ perf' = "failed"
    /\ UNCHANGED <<notPerformance, thresholds, timing, limits>>

\* A queued cy.log runs.
ExecPerfLog ==
    /\ perf = "logging"
    /\ perfLog' = [done |-> Append(perfLog.done, Head(perfLog.queued)),
                   queued |-> Tail(perfLog.queued)]
    /\ perf' = IF Tail(perfLog.queued) = << >> THEN "passed" ELSE "logging"
    /\ UNCHANGED <<notPerformance, thresholds, timing, limits>>

NextPerformance ==
    \/ ExecCheckPerformance
    \/ ExecWindowThen
    \/ ExecPerfLog

SpecPerformance == InitPerformance /\ [][NextPerformance]_vars

\* The limit the call should use for a key.
LimitFor(key, default) == IF thresholds[key] # Absent THEN thresholds[key] ELSE default

TooSlow ==
    \/ /\ timing.navigation.present
       /\ \/ timing.navigation.loadEventEnd - timing.navigation.startTime
               >= LimitFor("maxLoadTime", 5000)
          \/ timing.navigation.domContentLoadedEventEnd - timing.navigation.startTime
               >= LimitFor("maxDomContentLoaded", 3000)
    \/ /\ timing.firstPaint.present
       /\ timing.firstPaint.startTime >= LimitFor("maxFirstPaint", 2000)

C18_BudgetsNotEnforced == perf # "failed"

-----------------------------------------------------------------------------
(* support/commands.ts: validateSEO                                         *)

\* The five chains validateSEO enqueues.
validateSEO == <<"title", "description", "canonical", "og", "h1">>

\* cy.get(selector): it yields the elements once at least one matches, and
\* fails when none has appeared within the command timeout.
Get(count) == count > 0

\* The callback of cy.get('head link[rel="canonical"]').then
CanonicalThen(length) == IF length > 0 THEN <<"canonical href">> ELSE << >>
\* The callback of cy.get('head meta[property^="og:"]').then
OgThen(length) == IF length > 0 THEN <<"log">> ELSE << >>

HtmlInputs ==
    [title : {"", "FYUL"},
     description : {"missing", "no content", "", "text"},
     canonical : {"missing", "no href", "href"},
     og : {0, 1, 2},
     h1 : {0, 1, 2}]

InitSeo ==
    /\ configFile = "cypress.config.ts"
    /\ cypressEnv = Undefined
    /\ mode = "run"
    /\ cyEnv = NoCyEnv
    /\ NotStarted
    /\ VisualIdle
    /\ PagesIdle
    /\ NavigationIdle
    /\ PerformanceIdle
    /\ RetryIdle
    /\ html \in HtmlInputs
    /\ seoQueue = <<"validateSEO">>
    /\ seo = "queued"

notSeo == <<suite, visualVars, pageVars, navVars, perfVars, retryVars>>

SReady(op) == seo \in {"queued", "run"} /\ seoQueue # << >> /\ Head(seoQueue) = op

\* The command at the head of the queue ended, having enqueued `children`.
SRan(ok, children) ==
    /\ seoQueue' = IF ok THEN InsertChildren(children, Tail(seoQueue)) ELSE << >>
    /\ seo' = IF ~ok THEN "failed"
              ELSE IF InsertChildren(children, Tail(seoQueue)) = << >>
                   THEN "passed" ELSE "run"
    /\ UNCHANGED <<notSeo, html>>

ExecValidateSEO == SReady("validateSEO") /\ SRan(TRUE, validateSEO)

\* cy.title().should('exist').and('not.be.empty')
ExecSeoTitle == SReady("title") /\ SRan(html.title # "", << >>)

\* cy.get('head meta[name="description"]').should('exist')
\*   .and('have.attr', 'content').and('not.be.empty')
ExecSeoDescription ==
    /\ SReady("description")
    /\ SRan(/\ Get(IF html.description = "missing" THEN 0 ELSE 1)
            /\ html.description # "no content"
            /\ html.description # "",
            << >>)

ExecSeoCanonical ==
    /\ SReady("canonical")
    /\ LET length == IF html.canonical = "missing" THEN 0 ELSE 1
       IN  SRan(Get(length), CanonicalThen(length))

\* cy.wrap($canonical).should('have.attr', 'href')
ExecSeoCanonicalHref == SReady("canonical href") /\ SRan(html.canonical = "href", << >>)

ExecSeoOg == SReady("og") /\ SRan(Get(html.og), OgThen(html.og))

ExecSeoLog == SReady("log") /\ SRan(TRUE, << >>)

\* cy.get('h1').should('have.length.gte', 1)
ExecSeoH1 == SReady("h1") /\ SRan(Get(html.h1) /\ html.h1 >= 1, << >>)

NextSeo ==
    \/ ExecValidateSEO
    \/ ExecSeoTitle
    \/ ExecSeoDescription
    \/ ExecSeoCanonical
    \/ ExecSeoCanonicalHref
    \/ ExecSeoOg
    \/ ExecSeoLog
    \/ ExecSeoH1

SpecSeo == InitSeo /\ [][NextSeo]_vars

\* C19: validateSEO passes exactly when the title is not empty, there is a
\* meta description with non-empty content and there is at least one h1,
\* whether or not the page has a canonical link or og: meta tags.
C19_CanonicalAndOgOptional ==
    seo \in {"passed", "failed"} =>
        (seo = "passed" <=> /\ html.title # ""
                            /\ html.description = "text"
                            /\ html.h1 >= 1)

-----------------------------------------------------------------------------
(* support/commands.js: visitWithRetry                                     *)

\* One call of a retry command, alone in the queue of a test body.  The
\* option is options.retries (visitWithRetry) or options.maxAttempts
\* (clickWithRetry): a number, or Absent when it is not given.
MaxOption == 4
RetryOptions == {Absent} \cup 0..MaxOption

\* v || d for such an option: undefined and 0 are falsy.
OrDefault(v, d) == IF v = Absent \/ v = 0 THEN d ELSE v

\* const maxRetries = options.retries || 3
visitMaxRetries(option) == OrDefault(option, 3)

RCmd(op, n) == [op |-> op, n |-> n]

\* What a command met: for cy.visit the HTTP status of the response, whether
\* the page loaded (a text/html response that arrived within the timeout) and
\* window.status of the loaded page; for a click whether it threw.
NoOutcome == [loaded |-> FALSE, http |-> 0, status |-> "", threw |-> FALSE]
HttpStatuses == {200, 404, 500}
WindowStatuses == {"", "Done", "503"}
VisitOutcomes ==
    {[loaded |-> FALSE, http |-> 0, status |-> "", threw |-> FALSE]} \cup
    [loaded : {TRUE}, http : HttpStatuses, status : WindowStatuses, threw : {FALSE}]

\* v >= n for a string v and a number n: the string is converted to a number
\* ('' to 0, a decimal literal to its value), and a comparison with NaN is
\* false.
NumericValue == [v \in {"", "503"} |-> IF v = "" THEN 0 ELSE 503]
GreaterOrEqual(v, n) == v \in DOMAIN NumericValue /\ NumericValue[v] >= n

\* cy.visit(url, { timeout, failOnStatusCode: false })
failOnStatusCode_default == TRUE
failOnStatusCode == FALSE

\* cy.visit fails when the page does not load and, with failOnStatusCode, on
\* a status other than 2xx; otherwise it yields the window of the loaded page.
VisitResolves(o) == o.loaded /\ (failOnStatusCode => o.http \in 200..299)

attemptVisit(attemptNumber) == << RCmd("visit", attemptNumber) >>

\* The callback of cy.visit(...).then: resp is what cy.visit yields, the
\* window, so resp.status is window.status.
attemptVisitThen(resp, attemptNumber, max) ==
    IF GreaterOrEqual(resp.status, 400) /\ attemptNumber < max
    THEN << RCmd("log", attemptNumber), RCmd("wait", 2000) >>
         \o attemptVisit(attemptNumber + 1)
    ELSE << >>

Urls == {"/", "/missing"}

InitVisitWithRetry ==
    /\ configFile = "cypress.config.js"
    /\ cypressEnv = Undefined
    /\ mode = "run"
    /\ cyEnv = NoCyEnv
    /\ NotStarted
    /\ VisualIdle
    /\ PagesIdle
    /\ NavigationIdle
    /\ PerformanceIdle
    /\ SeoIdle
    /\ \E url \in Urls, option \in RetryOptions :
         rcall = [command |-> "visitWithRetry", target |-> url,
                  option |-> option, max |-> 0]
    /\ rqueue = << RCmd("visitWithRetry", 0) >>
    /\ rlog = << >>
    /\ rout = [state |-> "queued", error |-> NoError]

notRetry == <<suite, visualVars, pageVars, navVars, perfVars, seoVars>>

RReady(op) ==
    /\ rout.state \in {"queued", "run"}
    /\ rqueue # << >>
    /\ Head(rqueue).op = op

\* The command at the head of the queue ended, having met `seen` and enqueued
\* `children`; when it failed, the queue is dropped and `error` is raised.
RRan(ok, seen, children, error) ==
    /\ rqueue' = IF ok THEN InsertChildren(children, Tail(rqueue)) ELSE << >>
    /\ rlog' = Append(rlog, [op |-> Head(rqueue).op, n |-> Head(rqueue).n,
                             ok |-> ok, seen |-> seen])
    /\ rout' = [state |-> IF ~ok THEN "failed"
                          ELSE IF InsertChildren(children, Tail(rqueue)) = << >>
                               THEN "passed" ELSE "run",
                error |-> IF ok THEN NoError ELSE error]
    /\ UNCHANGED notRetry

VisitError == [message |-> "cy.visit() failed", target |-> rcall.target, attempts |-> 0]

ExecVisitWithRetry ==
    /\ RReady("visitWithRetry")
    /\ rcall' = [rcall EXCEPT !.max = visitMaxRetries(rcall.option)]
    /\ RRan(TRUE, NoOutcome, attemptVisit(1), NoError)

\* cy.visit and, when it resolved, its .then callback.
ExecAttemptVisit ==
    /\ RReady("visit")
    /\ rcall.command = "visitWithRetry"
    /\ \E o \in VisitOutcomes :
         RRan(VisitResolves(o), o,
              IF VisitResolves(o)
              THEN attemptVisitThen(o, Head(rqueue).n, rcall.max) ELSE << >>,
              VisitError)
    /\ UNCHANGED rcall

ExecRetryLog ==
    /\ RReady("log")
    /\ RRan(TRUE, NoOutcome, << >>, NoError)
    /\ UNCHANGED rcall

ExecRetryWait ==
    /\ RReady("wait")
    /\ RRan(TRUE, NoOutcome, << >>, NoError)
    /\ UNCHANGED rcall

NextVisitWithRetry ==
    \/ ExecVisitWithRetry
    \/ ExecAttemptVisit
    \/ ExecRetryLog
    \/ ExecRetryWait

SpecVisitWithRetry == InitVisitWithRetry /\ [][NextVisitWithRetry]_vars

RetryFinished == rout.state \in {"passed", "failed"}
RetryRan(op) == {i \in DOMAIN rlog : rlog[i].op = op}
\* The visit (click) that made attempt n, if it was made.
AttemptOf(op, n) == {i \in RetryRan(op) : rlog[i].n = n}
\* A wait of ms milliseconds ran after command i and before command j.
WaitedBetween(i, j, ms) ==
    \E k \in RetryRan("wait") : i < k /\ k < j /\ rlog[k].n = ms

\* C21: visitWithRetry ends after 1..maxRetries visits; attempt n+1 is made
\* exactly when attempt n returned a response with HTTP status >= 400 and
\* n < maxRetries, and then only after a wait of 2000 ms that follows attempt
\* n; after a response with status < 400 there is no further visit.
C21_RetryOnErrorStatus ==
    rcall.command = "visitWithRetry" /\ RetryFinished =>
        /\ Cardinality(RetryRan("visit")) \in 1..rcall.max
        /\ \A i \in RetryRan("visit") :
             /\ AttemptOf("visit", rlog[i].n + 1) # {}
                  <=> /\ rlog[i].ok
                      /\ rlog[i].seen.http >= 400
                      /\ rlog[i].n < rcall.max
             /\ \A j \in AttemptOf("visit", rlog[i].n + 1) : WaitedBetween(i, j, 2000)
             /\ rlog[i].ok /\ rlog[i].seen.http < 400
                  => \A j \in RetryRan("visit") : j <= i

\* C22: when every visit that visitWithRetry made returned a page with HTTP
\* status >= 400, also when these were all maxRetries attempts, the command
\* ends without an error: the test is not failed by it.
C22_NoErrorOnErrorStatus ==
    /\ rcall.command = "visitWithRetry"
    /\ RetryFinished
    /\ \A i \in RetryRan("visit") : rlog[i].seen.loaded /\ rlog[i].seen.http >= 400
    => rout = [state |-> "passed", error |-> NoError]

\* All maxRetries attempts were made, each met a status >= 400, and the
\* command has ended.
C22_Witness ==
    /\ rcall.command = "visitWithRetry"
    /\ RetryFinished
    /\ rcall.max >= 2
    /\ Cardinality(RetryRan("visit")) = rcall.max
    /\ \A i \in RetryRan("visit") : rlog[i].seen.loaded /\ rlog[i].seen.http >= 400

-----------------------------------------------------------------------------
(* support/commands.js: clickWithRetry                                     *)

\* const maxAttempts = options.maxAttempts || 3
maxAttempts(option) == OrDefault(option, 3)

Selectors == {".cta", "#menu"}

\* new Error(`Failed to click ${selector} after ${maxAttempts} attempts`)
FailedToClick(selector, max) ==
    [message |-> "Failed to click", target |-> selector, attempts |-> max]

\* attemptClick(attempt): it throws when attempt > maxAttempts, and otherwise
\* enqueues cy.get(selector, { timeout }).should('be.visible') and the .then
\* callback that clicks.
attemptClick_offByOne(n, max) ==
    IF n >= max
    THEN [throws |-> TRUE, cmds |-> << >>]
    ELSE [throws |-> FALSE,
          cmds |-> << RCmd("get", n), RCmd("click", n) >>]
attemptClick(n, max) ==
    IF n > max
    THEN [throws |-> TRUE, cmds |-> << >>]
    ELSE [throws |-> FALSE,
          cmds |-> << RCmd("get", n), RCmd("click", n) >>]

\* The catch block of the .then callback: cy.log, cy.wait(1000) and
\* attemptClick(attempt + 1), whose throw leaves the callback.
ClickCatch(n, max) ==
    [throws |-> attemptClick(n + 1, max).throws,
     cmds |-> << RCmd("log", n), RCmd("wait", 1000) >>
              \o attemptClick(n + 1, max).cmds]

InitClickWithRetry ==
    /\ configFile = "cypress.config.js"
    /\ cypressEnv = Undefined
    /\ mode = "run"
    /\ cyEnv = NoCyEnv
    /\ NotStarted
    /\ VisualIdle
    /\ PagesIdle
    /\ NavigationIdle
    /\ PerformanceIdle
    /\ SeoIdle
    /\ \E selector \in Selectors, option \in RetryOptions :
         rcall = [command |-> "clickWithRetry", target |-> selector,
                  option |-> option, max |-> 0]
    /\ rqueue = << RCmd("clickWithRetry", 0) >>
    /\ rlog = << >>
    /\ rout = [state |-> "queued", error |-> NoError]

ExecClickWithRetry ==
    /\ RReady("clickWithRetry")
    /\ rcall' = [rcall EXCEPT !.max = maxAttempts(rcall.option)]
    /\ LET first == attemptClick(1, maxAttempts(rcall.option))
       IN  RRan(~first.throws, NoOutcome, first.cmds,
                FailedToClick(rcall.target, maxAttempts(rcall.option)))

\* cy.get(selector, { timeout }).should('be.visible'): it fails when no
\* visible element has appeared within the timeout.
ExecGetVisible ==
    /\ RReady("get")
    /\ \E visible \in BOOLEAN :
         RRan(visible, NoOutcome, << >>,
              [message |-> "expected to be visible", target |-> rcall.target,
               attempts |-> 0])
    /\ UNCHANGED rcall

\* The .then callback: $el.click() inside try / catch.
ExecClickThen ==
    /\ RReady("click")
    /\ \E threw \in BOOLEAN :
         LET caught == ClickCatch(Head(rqueue).n, rcall.max)
         IN  RRan(~threw \/ ~caught.throws,
                  [NoOutcome EXCEPT !.threw = threw],
                  IF threw THEN caught.cmds ELSE << >>,
                  FailedToClick(rcall.target, rcall.max))
    /\ UNCHANGED rcall

NextClickWithRetry ==
    \/ ExecClickWithRetry
    \/ ExecGetVisible
    \/ ExecClickThen
    \/ ExecRetryLog
    \/ ExecRetryWait

SpecClickWithRetry == InitClickWithRetry /\ [][NextClickWithRetry]_vars

Threw(i) == rlog[i].seen.threw

\* C23: clickWithRetry makes at most maxAttempts clicks.  A click that does
\* not throw is the last one and ends the command.  After a click that throws
\* at an attempt below maxAttempts, a wait of 1000 ms runs and then the next
\* attempt, whose click comes only after that wait.  The command fails with
\* 'Failed to click <selector> after <maxAttempts> attempts' exactly when the
\* click of attempt maxAttempts threw, all maxAttempts clicks having thrown.
C23_ClickWithRetry ==
    rcall.command = "clickWithRetry" =>
        /\ Cardinality(RetryRan("click")) <= rcall.max
        /\ \A i \in RetryRan("click") :
             /\ ~Threw(i) =>
                  /\ \A j \in RetryRan("click") : j <= i
                  /\ i = Len(rlog)
                  /\ rout = [state |-> "passed", error |-> NoError]
             /\ Threw(i) /\ rlog[i].n < rcall.max =>
                  /\ rlog[i].ok
                  /\ \A j \in AttemptOf("click", rlog[i].n + 1) :
                       WaitedBetween(i, j, 1000)
                  /\ RetryFinished =>
                       \E j \in AttemptOf("get", rlog[i].n + 1) :
                           WaitedBetween(i, j, 1000)
        /\ (\E i \in AttemptOf("click", rcall.max) : Threw(i))
             <=> rout = [state |-> "failed",
                         error |-> FailedToClick(rcall.target, rcall.max)]
        /\ rout.error.message = "Failed to click" =>
             /\ Cardinality(RetryRan("click")) = rcall.max
             /\ \A i \in RetryRan("click") : Threw(i)

\* Every one of at least two attempts threw and the command has failed.
C23_Witness ==
    /\ rcall.command = "clickWithRetry"
    /\ rcall.max >= 2
    /\ Cardinality(RetryRan("click")) = rcall.max
    /\ \A i \in RetryRan("click") : Threw(i)
    /\ rout.state = "failed"

\* A click that did not throw ended the command after an earlier one threw.
C23_RecoveredWitness ==
    /\ rcall.command = "clickWithRetry"
    /\ rout.state = "passed"
    /\ \E i, j \in RetryRan("click") : Threw(i) /\ ~Threw(j)

====
